---- MODULE Spec2Model ----
(***************************************************************************)
(* State-machine model of the GroupNavigation component                    *)
(* (src/src/components/GroupNavigation.tsx): the geometry probe, the pin   *)
(* (sticky) rule driven by scroll events, the per-group intersection       *)
(* observers, and the click-to-scroll handler.                             *)
(*                                                                         *)
(* One action per browser/React event.  A state update made by a handler   *)
(* is rendered before the next event is processed, so handlers read the    *)
(* component state of the previous event; the props (isPinned,             *)
(* onPinChange) are whatever the parent passed at its last render, and     *)
(* the parent re-renders on its own schedule (ParentRender).               *)
(***************************************************************************)
EXTENDS Integers, Sequences, FiniteSets, TLC

\* ---------------------------------------------------------------- bounds
MaxId == 2          \* group ids are 1..MaxId
MaxScroll == 3      \* window.scrollY ranges over 0..MaxScroll
MaxEntries == 2     \* entries delivered in one IntersectionObserver callback
MaxSelectId == 11   \* SpecSelect clicks items of ids -MaxSelectId..MaxSelectId

\* ---------------------------------------------------- page layout (environment)
MarkerDocTop == 1   \* document-relative top of the first-group marker
FlowLeft == 4       \* left edge of the navigator in normal document flow
HeaderHeight == 3   \* height of the navigator's title box
ItemHeight == 2     \* height of one list item
SectionGap == 5     \* vertical distance between group sections

\* ------------------------------------------------------ program constants
ScrollMargin == 20  \* the fixed 20px margin of handleNavClick

Ids == 1..MaxId
\* the values of the optional boolean prop isPinned
PropTrue == "true"
PropFalse == "false"
Absent == "undefined"
\* null, where an element id (a string) is expected: no element id is empty
Null == <<>>
\* the number NaN, which is no integer: a code outside the range of the ids
NaN == -1000000

\* which effect run registered a callback: the latest one of the mounted
\* instance, an earlier one of the mounted instance, or one of an instance
\* that has been unmounted
Cur == "cur"
Prev == "prev"
Dead == "dead"

VARIABLES
    mounted,        \* a component instance is mounted
    groups,         \* the groups prop of the last render (sequence of ids)
    isPinned,       \* the isPinned prop of the last render
    onPinChange,    \* TRUE iff the parent passed an onPinChange listener
    onGroupClick,   \* TRUE iff the parent passed an onGroupClick listener
    parentPinned,   \* the isPinned value the parent holds for its next render
    dom,            \* ids whose element `group-<id>` exists in the document
    scrollY,        \* window.scrollY
    isMobile,       \* useMediaQuery(theme.breakpoints.down('md'))
    activeGroupId,  \* useState: activeGroupId
    isSticky,       \* useState: isSticky
    navPosition,    \* useState: navPosition
    tooltipOpen,    \* useState: tooltipOpen (a map from element id to boolean)
    observers,      \* the IntersectionObserver objects that exist
    observerRefs,   \* observerRefs.current: element id -> observer
    timers,         \* registrations with a pending setTimeout(updateNavPosition)
    resizeListeners,\* registrations with a window 'resize' listener
    scrollListener, \* TRUE iff handleScroll is registered on window
    setupDom,       \* the elements that existed when observers were last set up
    lastEntry,      \* element id of the last delivered isIntersecting entry
    lastEvent       \* the event processed last and what it called

vars == <<mounted, groups, isPinned, onPinChange, onGroupClick, parentPinned,
          dom, scrollY, isMobile, activeGroupId, isSticky, navPosition,
          tooltipOpen, observers, observerRefs, timers, resizeListeners,
          scrollListener, setupDom, lastEntry, lastEvent>>

\* ----------------------------------------------------------------- helpers
Digit(d) == CASE d = 0 -> "0" [] d = 1 -> "1" [] d = 2 -> "2" [] d = 3 -> "3"
              [] d = 4 -> "4" [] d = 5 -> "5" [] d = 6 -> "6" [] d = 7 -> "7"
              [] d = 8 -> "8" [] d = 9 -> "9"

RECURSIVE NatToStr(_)
NatToStr(n) == IF n < 10 THEN <<Digit(n)>>
               ELSE NatToStr(n \div 10) \o <<Digit(n % 10)>>

\* String(n) of the template literal, for an integer n or NaN
NumToStr(n) == IF n = NaN THEN <<"N", "a", "N">>
               ELSE IF n < 0 THEN <<"-">> \o NatToStr(-n) ELSE NatToStr(n)

\* `group-${group.id}`
GroupKey(id) == <<"g", "r", "o", "u", "p", "-">> \o NumToStr(id)

RECURSIVE SeqRange(_)
SeqRange(s) == IF s = <<>> THEN {} ELSE {Head(s)} \cup SeqRange(Tail(s))

\* the lists the parent may pass: ids are unique within a list
GroupLists == {s \in UNION {[1..n -> Ids] : n \in 0..MaxId} :
                 \A i, j \in 1..Len(s) : i # j => s[i] # s[j]}

\* one list of each length; the pin rule, the geometry probe and the click
\* handler read the length of the list and the ids in it, not their order
PrefixLists == {[i \in 1..n |-> i] : n \in 0..MaxId}

\* faulty variant: the early return for an empty list is missing
RenderedAlways == mounted

\* the navigator (and the marker) is in the document iff the component
\* is mounted and rendered something
Rendered == mounted /\ Len(groups) # 0

\* getBoundingClientRect().top of an element whose document top is docTop
RectTop(docTop, y) == docTop - y

\* document top of the section element of group id
SectionDocTop(id) == SectionGap * id

\* navRect.height: the title box plus one item per group
NavHeight(gs) == HeaderHeight + ItemHeight * Len(gs)

\* faulty variant: the pinned offset is not forced to 0 on a small screen
RenderedLeftDesktop == IF isSticky THEN navPosition.left ELSE 0

\* the `left` style of the navigator container
RenderedLeft == IF isSticky THEN (IF isMobile THEN 0 ELSE navPosition.left) ELSE 0

\* navRect.left: the flow position while relative, the style's left while fixed
NavRectLeft == IF isSticky THEN RenderedLeft ELSE FlowLeft

\* firstGroupRef.current && navRef.current, seen by a closure registered as g:
\* the refs of an unmounted instance are null
RefsPresent(g) == Rendered /\ g # Dead

\* faulty variant: only the top is replaced
updateNavPositionTopOnly(g) ==
    IF RefsPresent(g)
    THEN [navPosition EXCEPT !.top = RectTop(MarkerDocTop, scrollY)]
    ELSE navPosition

\* updateNavPosition of the closure created by effect run g
updateNavPosition(g) ==
    IF RefsPresent(g)
    THEN [top |-> RectTop(MarkerDocTop, scrollY),
          left |-> NavRectLeft,
          height |-> NavHeight(groups)]
    ELSE navPosition

\* the record of one processed event: its kind, the element id it was about,
\* the registrations whose callback it ran, the onPinChange and
\* window.scrollTo calls it made, isSticky before a scroll event, and the
\* observers still connected when an effect began to create new ones; selects
\* are the onGroupClick calls, which only a click makes
Ev(kind, key, reg, pinCalls, scrolls, wasSticky, liveBefore) ==
    [kind |-> kind, key |-> key, reg |-> reg, pinCalls |-> pinCalls,
     scrolls |-> scrolls, wasSticky |-> wasSticky, liveBefore |-> liveBefore,
     selects |-> <<>>]

Quiet(kind) == Ev(kind, Null, {}, <<>>, <<>>, FALSE, 0)

InitialNavPosition == [top |-> 0, left |-> 0, height |-> 0]

EmptyMap == [k \in {} |-> FALSE]

\* { ...prev, [k]: v }
Put(m, k, v) == [x \in DOMAIN m \cup {k} |-> IF x = k THEN v ELSE m[x]]

\* a prop used as a condition: undefined is falsy
Truthy(v) == v = PropTrue

\* --------------------------------------------------- scroll effect (62-92)
\* firstGroupTop of handleScroll, for the scroll offset y
FirstGroupTop(y) ==
    IF Rendered THEN RectTop(MarkerDocTop, y) + y ELSE navPosition.top

\* faulty variant: the threshold itself already pins
StickyAtInclusive(y) == y >= FirstGroupTop(y)

\* the argument of setIsSticky
StickyAt(y) == y > FirstGroupTop(y)

\* faulty variant: the listener is called without looking at isPinned
PinCallsUnguarded(sticky) == IF onPinChange THEN <<sticky>> ELSE <<>>

\* the onPinChange calls of handleScroll when it sets isSticky to sticky
PinCalls(sticky) ==
    IF sticky
    THEN (IF onPinChange /\ ~Truthy(isPinned) THEN <<TRUE>> ELSE <<>>)
    ELSE (IF onPinChange /\ Truthy(isPinned) THEN <<FALSE>> ELSE <<>>)

\* the parent keeps the argument of each onPinChange call as the isPinned of
\* its next render
ParentAfter(calls) ==
    IF calls = <<>> THEN parentPinned
    ELSE IF calls[Len(calls)] THEN PropTrue ELSE PropFalse

\* a scroll event: the window is at offset y when the listeners run (y may be
\* the offset it already had: handleScroll does not compare offsets)
Scroll(y) ==
    /\ scrollY' = y
    /\ IF scrollListener /\ Rendered
       THEN /\ isSticky' = StickyAt(y)
            /\ lastEvent' = Ev("scroll", Null, {}, PinCalls(StickyAt(y)), <<>>,
                               isSticky, 0)
            /\ parentPinned' = ParentAfter(PinCalls(StickyAt(y)))
       ELSE /\ isSticky' = isSticky
            /\ lastEvent' = Ev("scroll", Null, {}, <<>>, <<>>, isSticky, 0)
            /\ parentPinned' = parentPinned
    /\ UNCHANGED <<mounted, groups, isPinned, onPinChange, onGroupClick, dom,
                   isMobile, activeGroupId, navPosition, tooltipOpen, observers,
                   observerRefs, timers, resizeListeners, scrollListener,
                   setupDom, lastEntry>>

\* the parent renders the component again: isPinned, onPinChange and
\* onGroupClick are those of this render (line 23)
ParentRender(ip, opc, ogc) ==
    /\ mounted
    /\ isPinned' = ip
    /\ onPinChange' = opc
    /\ onGroupClick' = ogc
    /\ parentPinned' = ip
    /\ lastEvent' = Quiet("parent")
    /\ UNCHANGED <<mounted, groups, dom, scrollY, isMobile,
                   activeGroupId, isSticky, navPosition, tooltipOpen, observers,
                   observerRefs, timers, resizeListeners, scrollListener,
                   setupDom, lastEntry>>

\* ------------------------------------------------- geometry effect (35-59)
\* a deferred updateNavPosition registered as g fires; several earlier effect
\* runs may each have one pending, and `last` tells whether this was the last
\* pending one of its kind (the latest effect run has exactly one)
TimerFire(g, last) ==
    /\ g \in timers
    /\ g = Cur => last
    /\ timers' = IF last THEN timers \ {g} ELSE timers
    /\ navPosition' = updateNavPosition(g)
    /\ lastEvent' = Ev("timer", Null, {g}, <<>>, <<>>, FALSE, 0)
    /\ UNCHANGED <<mounted, groups, isPinned, onPinChange, onGroupClick,
                   parentPinned, dom, scrollY, isMobile, activeGroupId,
                   isSticky, tooltipOpen, observers, observerRefs,
                   resizeListeners, scrollListener, setupDom, lastEntry>>

\* navPosition after every registered resize listener has run
ResizeRun ==
    LET able == {g \in resizeListeners : RefsPresent(g)}
    IN  IF able = {} THEN navPosition
        ELSE updateNavPosition(CHOOSE g \in able : TRUE)

\* a window resize: the registered listeners run; the media query may flip
Resize(mob) ==
    /\ isMobile' = IF mounted THEN mob ELSE isMobile
    /\ navPosition' = ResizeRun
    /\ lastEvent' = Ev("resize", Null, resizeListeners, <<>>, <<>>, FALSE, 0)
    /\ UNCHANGED <<mounted, groups, isPinned, onPinChange, onGroupClick,
                   parentPinned, dom, scrollY, activeGroupId, isSticky,
                   tooltipOpen, observers, observerRefs, timers,
                   resizeListeners, scrollListener, setupDom, lastEntry>>

\* ------------------------------------- intersection observer effect (95-129)
\* a later effect run has happened: the latest registration is now an earlier one
Age(g) == IF g = Cur THEN Prev ELSE g

\* faulty variant: the observers are never disconnected
DisconnectNone(obs, refs) == obs

\* forEach(observer => observer.disconnect()) over the values of the map refs
DisconnectAll(obs, refs) ==
    {IF o.key \in DOMAIN refs /\ refs[o.key] = o.reg
     THEN [o EXCEPT !.live = FALSE] ELSE o : o \in obs}

Live(obs) == {o \in obs : o.live}

\* the ids of gs whose element exists: getElementById(`group-${group.id}`)
Observable(gs) ==
    {id \in SeqRange(gs) : \E e \in dom : GroupKey(e) = GroupKey(id)}

\* new IntersectionObserver(...) + observe(element), for each group of gs
CreateObservers(gs) ==
    {[key |-> GroupKey(id), id |-> id, reg |-> Cur, live |-> TRUE] :
        id \in Observable(gs)}

\* observerRefs.current after the effect body ran for gs
NewRefs(gs) == [k \in {GroupKey(id) : id \in Observable(gs)} |-> Cur]

\* the observers after the cleanup of the previous effect run (124-128)
AfterCleanup == DisconnectAll(observers, observerRefs)

\* the observers after lines 97-100 of the effect body; a disconnected observer
\* that the map no longer references is gone
BeforeCreate == Live(DisconnectAll(AfterCleanup, observerRefs))

\* the component is mounted with the list gs: first render and effect runs
Mount(gs, ip, opc, ogc, mob) ==
    /\ ~mounted
    /\ mounted' = TRUE
    /\ groups' = gs
    /\ isPinned' = ip
    /\ onPinChange' = opc
    /\ onGroupClick' = ogc
    /\ parentPinned' = ip
    /\ isMobile' = mob
    /\ activeGroupId' = Null
    /\ isSticky' = FALSE
    /\ navPosition' = InitialNavPosition
    /\ tooltipOpen' = EmptyMap
    /\ timers' = timers \cup {Cur}
    /\ resizeListeners' = resizeListeners \cup {Cur}
    /\ scrollListener' = TRUE
    /\ observers' = observers \cup CreateObservers(gs)
    /\ observerRefs' = NewRefs(gs)
    /\ setupDom' = dom
    /\ lastEntry' = Null
    /\ lastEvent' = Ev("mount", Null, {}, <<>>, <<>>, FALSE,
                       Cardinality(Live(observers)))
    /\ UNCHANGED <<dom, scrollY>>

\* the parent passes a new groups list: the cleanups of the [groups] effects
\* run, then their bodies
ListChange(gs) ==
    /\ mounted
    /\ groups' = gs
    /\ timers' = {Age(g) : g \in timers} \cup {Cur}
    /\ resizeListeners' = {Age(g) : g \in resizeListeners \ {Cur}} \cup {Cur}
    /\ observers' = {[o EXCEPT !.reg = Age(@)] : o \in BeforeCreate}
                        \cup CreateObservers(gs)
    /\ observerRefs' = NewRefs(gs)
    /\ setupDom' = dom
    /\ lastEvent' = Ev("listchange", Null, {}, <<>>, <<>>, FALSE,
                       Cardinality(BeforeCreate))
    /\ UNCHANGED <<mounted, isPinned, onPinChange, onGroupClick, parentPinned,
                   dom, scrollY, isMobile, activeGroupId, isSticky, navPosition,
                   tooltipOpen, scrollListener, lastEntry>>

\* the component is torn down: every effect's cleanup runs, and the state and
\* the refs of the instance are gone
Unmount ==
    /\ mounted
    /\ mounted' = FALSE
    /\ groups' = <<>>
    /\ isPinned' = Absent
    /\ onPinChange' = FALSE
    /\ onGroupClick' = FALSE
    /\ parentPinned' = Absent
    /\ isMobile' = FALSE
    /\ activeGroupId' = Null
    /\ isSticky' = FALSE
    /\ navPosition' = InitialNavPosition
    /\ tooltipOpen' = EmptyMap
    /\ timers' = {Dead : g \in timers}
    /\ resizeListeners' = {Dead : g \in resizeListeners \ {Cur}}
    /\ scrollListener' = FALSE
    /\ observers' = {[o EXCEPT !.reg = Dead] : o \in Live(AfterCleanup)}
    /\ observerRefs' = EmptyMap
    /\ setupDom' = {}
    /\ lastEntry' = Null
    /\ lastEvent' = Quiet("unmount")
    /\ UNCHANGED <<dom, scrollY>>

\* faulty variant: every delivered entry counts, intersecting or not
EnteredAny(es) == Len(es) > 0

\* entry.isIntersecting holds for some entry of the batch es (108-112)
Entered(es) == \E i \in 1..Len(es) : es[i]

\* the callback of observer o is delivered the entries es (isIntersecting flags)
Intersect(o, es) ==
    /\ o \in observers
    /\ o.live
    /\ activeGroupId' = IF Entered(es) /\ o.reg # Dead
                        THEN GroupKey(o.id) ELSE activeGroupId
    /\ lastEntry' = IF (\E i \in 1..Len(es) : es[i]) /\ o.reg # Dead
                    THEN o.key ELSE lastEntry
    /\ lastEvent' = Ev(IF \E i \in 1..Len(es) : es[i] THEN "enter" ELSE "exit",
                       o.key, {o.reg}, <<>>, <<>>, FALSE, 0)
    /\ UNCHANGED <<mounted, groups, isPinned, onPinChange, onGroupClick,
                   parentPinned, dom, scrollY, isMobile, isSticky, navPosition,
                   tooltipOpen, observers, observerRefs, timers,
                   resizeListeners, scrollListener, setupDom>>

\* section elements appear in or disappear from the document
DomChange(d) ==
    /\ d # dom
    /\ dom' = d
    /\ lastEvent' = Quiet("dom")
    /\ UNCHANGED <<mounted, groups, isPinned, onPinChange, onGroupClick,
                   parentPinned, scrollY, isMobile, activeGroupId, isSticky,
                   navPosition, tooltipOpen, observers, observerRefs, timers,
                   resizeListeners, scrollListener, setupDom, lastEntry>>

\* ------------------------------------------------- handleNavClick (132-155)
\* faulty variant: the pinned navigator's height is not subtracted
NavOffsetUnpinned == ScrollMargin

\* the offset subtracted from the element position
NavOffset == IF isSticky THEN navPosition.height + ScrollMargin ELSE ScrollMargin

\* document.getElementById(key): the ids of the elements found
ElementsById(key) == {id \in dom : GroupKey(id) = key}

\* the window.scrollTo calls of handleNavClick(key)
NavScrolls(key) ==
    IF ElementsById(key) = {} THEN <<>>
    ELSE LET id == CHOOSE id \in ElementsById(key) : TRUE
             elementPosition == RectTop(SectionDocTop(id), scrollY) + scrollY
         IN  <<elementPosition - NavOffset>>

\* faulty variant: the tooltip is closed only when the element was found
TooltipAfterClickIfFound(key) ==
    IF ElementsById(key) = {} THEN tooltipOpen ELSE Put(tooltipOpen, key, FALSE)

\* tooltipOpen after handleNavClick(key)
TooltipAfterClick(key) == Put(tooltipOpen, key, FALSE)

\* s.replace(pat, ''): the first occurrence of pat is removed
ReplaceFirst(s, pat) ==
    LET at == {i \in 1..(Len(s) - Len(pat) + 1) :
                  SubSeq(s, i, i + Len(pat) - 1) = pat}
    IN  IF at = {} THEN s
        ELSE LET i == CHOOSE i \in at : \A j \in at : i <= j
             IN  SubSeq(s, 1, i - 1) \o SubSeq(s, i + Len(pat), Len(s))

IsDigit(c) == \E d \in 0..9 : Digit(d) = c

DigitVal(c) == CHOOSE d \in 0..9 : Digit(d) = c

\* the value of the longest prefix of s made of decimal digits, after acc
RECURSIVE ParseDigits(_, _)
ParseDigits(s, acc) ==
    IF s = <<>> \/ ~IsDigit(Head(s)) THEN acc
    ELSE ParseDigits(Tail(s), 10 * acc + DigitVal(Head(s)))

\* faulty variant: a leading sign is not read
ParseIntUnsigned(s) ==
    IF s = <<>> \/ ~IsDigit(Head(s)) THEN NaN ELSE ParseDigits(s, 0)

\* parseInt(s) without a radix: an optional sign, then decimal digits up to the
\* first other character; NaN when there is no digit.  (The strings here come
\* from String(number): no leading white space and no 0x prefix.)
ParseInt(s) ==
    LET signed == s # <<>> /\ Head(s) \in {"-", "+"}
        body == IF signed THEN Tail(s) ELSE s
    IN  IF body = <<>> \/ ~IsDigit(Head(body)) THEN NaN
        ELSE IF signed /\ Head(s) = "-" THEN 0 - ParseDigits(body, 0)
        ELSE ParseDigits(body, 0)

\* the onGroupClick calls of handleNavClick(key) (151-154)
SelectCalls(key) ==
    IF onGroupClick
    THEN <<ParseInt(ReplaceFirst(key, <<"g", "r", "o", "u", "p", "-">>))>>
    ELSE <<>>

\* faulty variant: the click also makes the clicked group the active one
handleNavClickActivates(key) ==
    /\ tooltipOpen' = TooltipAfterClick(key)
    /\ activeGroupId' = key
    /\ lastEvent' = [Ev("click", key, {}, <<>>, NavScrolls(key), FALSE, 0)
                        EXCEPT !.selects = SelectCalls(key)]
    /\ UNCHANGED <<mounted, groups, isPinned, onPinChange, onGroupClick,
                   parentPinned, dom, scrollY, isMobile, isSticky, navPosition,
                   observers, observerRefs, timers, resizeListeners,
                   scrollListener, setupDom, lastEntry>>

handleNavClick(key) ==
    /\ tooltipOpen' = TooltipAfterClick(key)
    /\ lastEvent' = [Ev("click", key, {}, <<>>, NavScrolls(key), FALSE, 0)
                        EXCEPT !.selects = SelectCalls(key)]
    /\ UNCHANGED <<mounted, groups, isPinned, onPinChange, onGroupClick,
                   parentPinned, dom, scrollY, isMobile, activeGroupId,
                   isSticky, navPosition, observers, observerRefs, timers,
                   resizeListeners, scrollListener, setupDom, lastEntry>>

\* a click on the list item of group id
NavClick(id) ==
    /\ Rendered
    /\ id \in SeqRange(groups)
    /\ handleNavClick(GroupKey(id))

\* faulty variant: opening or closing one tooltip closes all the others
setTooltipExclusive(key, open) ==
    /\ tooltipOpen' = [k \in DOMAIN tooltipOpen \cup {key} |-> k = key /\ open]
    /\ lastEvent' = Ev(IF open THEN "mouseenter" ELSE "mouseleave", key, {},
                       <<>>, <<>>, FALSE, 0)
    /\ UNCHANGED <<mounted, groups, isPinned, onPinChange, onGroupClick,
                   parentPinned, dom, scrollY, isMobile, activeGroupId,
                   isSticky, navPosition, observers, observerRefs, timers,
                   resizeListeners, scrollListener, setupDom, lastEntry>>

\* handleMouseEnter / handleMouseLeave (157-171)
setTooltip(key, open) ==
    /\ tooltipOpen' = Put(tooltipOpen, key, open)
    /\ lastEvent' = Ev(IF open THEN "mouseenter" ELSE "mouseleave", key, {},
                       <<>>, <<>>, FALSE, 0)
    /\ UNCHANGED <<mounted, groups, isPinned, onPinChange, onGroupClick,
                   parentPinned, dom, scrollY, isMobile, activeGroupId,
                   isSticky, navPosition, observers, observerRefs, timers,
                   resizeListeners, scrollListener, setupDom, lastEntry>>

\* the pointer enters or leaves the list item of group id
Hover(id, open) ==
    /\ Rendered
    /\ id \in SeqRange(groups)
    /\ setTooltip(GroupKey(id), open)

\* ------------------------------------------------------------ specifications
PropValues == {PropTrue, PropFalse, Absent}

EntryBatches == UNION {[1..n -> BOOLEAN] : n \in 1..MaxEntries}

Init ==
    /\ mounted = FALSE
    /\ groups = <<>>
    /\ isPinned = Absent
    /\ onPinChange = FALSE
    /\ onGroupClick = FALSE
    /\ parentPinned = Absent
    /\ dom = Ids
    /\ scrollY = 0
    /\ isMobile = FALSE
    /\ activeGroupId = Null
    /\ isSticky = FALSE
    /\ navPosition = InitialNavPosition
    /\ tooltipOpen = EmptyMap
    /\ observers = {}
    /\ observerRefs = EmptyMap
    /\ timers = {}
    /\ resizeListeners = {}
    /\ scrollListener = FALSE
    /\ setupDom = {}
    /\ lastEntry = Null
    /\ lastEvent = Quiet("init")

\* the pin rule: scroll events, the parent's props, the geometry probe
NextPin ==
    \/ \E gs \in PrefixLists, ip \in PropValues, opc \in BOOLEAN :
           Mount(gs, ip, opc, FALSE, FALSE)
    \/ \E gs \in PrefixLists : ListChange(gs)
    \/ Unmount
    \/ \E ip \in PropValues, opc \in BOOLEAN :
           ParentRender(ip, opc, onGroupClick)
    \/ \E y \in 0..MaxScroll : Scroll(y)
    \/ Resize(isMobile)
    \/ \E g \in timers, last \in BOOLEAN : TimerFire(g, last)

SpecPin == Init /\ [][NextPin]_vars

\* the observers: list changes, the document's elements, intersection callbacks
NextObs ==
    \/ \E gs \in GroupLists : Mount(gs, Absent, FALSE, FALSE, FALSE)
    \/ \E gs \in GroupLists : ListChange(gs)
    \/ Unmount
    \/ \E o \in observers, es \in EntryBatches : Intersect(o, es)
    \/ \E d \in SUBSET Ids : DomChange(d)

SpecObs == Init /\ [][NextObs]_vars

\* the hover map: pointer events and clicks on the list items
NextHover ==
    \/ \E gs \in PrefixLists : Mount(gs, Absent, FALSE, FALSE, FALSE)
    \/ Unmount
    \/ \E d \in SUBSET Ids : DomChange(d)
    \/ \E y \in 0..MaxScroll : Scroll(y)
    \/ \E id \in Ids : NavClick(id)
    \/ \E id \in Ids, open \in BOOLEAN : Hover(id, open)

SpecHover == Init /\ [][NextHover]_vars

\* click-to-scroll, with the pin state and the geometry it reads
NextNav ==
    \/ \E gs \in PrefixLists : Mount(gs, Absent, FALSE, FALSE, FALSE)
    \/ \E gs \in PrefixLists : ListChange(gs)
    \/ \E y \in 0..MaxScroll : Scroll(y)
    \/ Resize(isMobile)
    \/ \E g \in timers, last \in BOOLEAN : TimerFire(g, last)
    \/ \E id \in Ids : NavClick(id)

SpecNav == Init /\ [][NextNav]_vars

\* the ids a list item may carry when it is clicked: integers of either sign
\* and of one or two digits, and NaN (a value of the type number)
SelectIds == (-MaxSelectId..MaxSelectId) \cup {NaN}

\* the selection callback: clicks on the item of a one-group list
NextSelect ==
    \/ \E id \in SelectIds, ogc \in BOOLEAN :
           Mount(<<id>>, Absent, FALSE, ogc, FALSE)
    \/ \E ogc \in BOOLEAN : ParentRender(isPinned, onPinChange, ogc)
    \/ Unmount
    \/ \E id \in SelectIds : NavClick(id)
    \/ \E id \in SelectIds, open \in BOOLEAN : Hover(id, open)

SpecSelect == Init /\ [][NextSelect]_vars

\* a parent that keeps the argument of onPinChange and passes it back as
\* isPinned at its next render; scroll events may come before that render
NextSync ==
    \/ \E gs \in PrefixLists, ip \in PropValues :
           Mount(gs, ip, TRUE, FALSE, FALSE)
    \/ Unmount
    \/ \E y \in 0..MaxScroll : Scroll(y)
    \/ ParentRender(parentPinned, onPinChange, onGroupClick)

SpecSync == Init /\ [][NextSync]_vars

\* the hover map among the other events of one mounted instance: the window at
\* the top or at the bottom of the page, one entry per observer callback
NextFrame ==
    \/ \E gs \in PrefixLists : Mount(gs, Absent, FALSE, FALSE, FALSE)
    \/ \E gs \in PrefixLists : ListChange(gs)
    \/ \E y \in {0, MaxScroll} : Scroll(y)
    \/ Resize(isMobile)
    \/ \E o \in observers, b \in BOOLEAN : Intersect(o, <<b>>)
    \/ \E id \in Ids : NavClick(id)
    \/ \E id \in Ids, open \in BOOLEAN : Hover(id, open)

SpecFrame == Init /\ [][NextFrame]_vars

\* the active group among the other events of one list: clicks, hovers, scroll
\* and resize events, the deferred measurement, observer callbacks
NextActive ==
    \/ \E gs \in PrefixLists : Mount(gs, Absent, FALSE, FALSE, FALSE)
    \/ \E y \in {0, MaxScroll} : Scroll(y)
    \/ Resize(isMobile)
    \/ \E g \in timers, last \in BOOLEAN : TimerFire(g, last)
    \/ \E o \in observers, b \in BOOLEAN : Intersect(o, <<b>>)
    \/ \E id \in Ids : NavClick(id)
    \/ \E id \in Ids, open \in BOOLEAN : Hover(id, open)

SpecActive == Init /\ [][NextActive]_vars

\* the rendered position: scroll events, measurements, and resize events that
\* take the window across the md breakpoint
NextRender ==
    \/ \E gs \in PrefixLists, mob \in BOOLEAN :
           Mount(gs, Absent, FALSE, FALSE, mob)
    \/ \E y \in 0..MaxScroll : Scroll(y)
    \/ \E mob \in BOOLEAN : Resize(mob)
    \/ \E g \in timers, last \in BOOLEAN : TimerFire(g, last)

SpecRender == Init /\ [][NextRender]_vars

\* the geometry probe: measurements by timer and by resize, with the list
\* changing (the empty list included) and the instance torn down
NextMeasure ==
    \/ \E gs \in PrefixLists : Mount(gs, Absent, FALSE, FALSE, FALSE)
    \/ \E gs \in PrefixLists : ListChange(gs)
    \/ Unmount
    \/ \E y \in 0..MaxScroll : Scroll(y)
    \/ Resize(isMobile)
    \/ \E g \in timers, last \in BOOLEAN : TimerFire(g, last)

SpecMeasure == Init /\ [][NextMeasure]_vars

\* ------------------------------------------------------------------ claims
\* the boolean v as a value of the isPinned prop
PropOf(v) == IF v THEN PropTrue ELSE PropFalse

\* the group id that the element id key was derived from
KeyId(key) == CHOOSE id \in Ids : GroupKey(id) = key

\* the last event was a scroll event that handleScroll processed to its end
ScrollProcessed == lastEvent.kind = "scroll" /\ scrollListener /\ Rendered

\* C1 (as amended): after every scroll event processed while the navigator is
\* rendered, isSticky holds iff scrollY is strictly above the marker's document
\* top, whatever isSticky was before; so it turns on only at an offset above the
\* top and off only at an offset at or below it.
C1_PinFollowsScroll ==
    ScrollProcessed =>
        /\ isSticky <=> scrollY > MarkerDocTop
        /\ (~lastEvent.wasSticky /\ isSticky) => scrollY > MarkerDocTop
        /\ (lastEvent.wasSticky /\ ~isSticky) => scrollY <= MarkerDocTop

\* C1 witness: a processed scroll event to exactly the marker's top unpins
C1_Witness ==
    /\ ScrollProcessed
    /\ scrollY = MarkerDocTop
    /\ lastEvent.wasSticky
    /\ ~isSticky

\* C1 (original): as above, and a processed scroll event whose offsets before
\* and after lie on the same side of the marker's top never changes isSticky.
C1_Original ==
    [][(lastEvent'.kind = "scroll" /\ scrollListener /\ Rendered) =>
          /\ isSticky' <=> scrollY' > MarkerDocTop
          /\ ((scrollY > MarkerDocTop) <=> (scrollY' > MarkerDocTop))
                 => isSticky' = isSticky]_vars

\* C2: a scroll event that leaves isSticky unchanged calls onPinChange zero
\* times, for every value of the isPinned prop.
C2_NotifyOnlyOnChange ==
    (lastEvent.kind = "scroll" /\ isSticky = lastEvent.wasSticky)
        => lastEvent.pinCalls = <<>>

\* C3: whenever a scroll event calls onPinChange(v), the isPinned prop differs
\* from v.
C3_NoDuplicateNotify ==
    lastEvent.kind = "scroll" =>
        \A i \in 1..Len(lastEvent.pinCalls) :
            isPinned # PropOf(lastEvent.pinCalls[i])

\* C3 witness: a scroll event called onPinChange(false) while isPinned was true
C3_Witness ==
    /\ lastEvent.kind = "scroll"
    /\ lastEvent.pinCalls = <<FALSE>>
    /\ isPinned = PropTrue

\* C4: a scroll event that changes isSticky to v calls onPinChange(v) exactly
\* once, provided a listener is registered and isPinned is not already v
\* (an absent isPinned included).
C4_EveryTransitionReported ==
    (/\ lastEvent.kind = "scroll"
     /\ isSticky # lastEvent.wasSticky
     /\ onPinChange
     /\ isPinned # PropOf(isSticky))
        => lastEvent.pinCalls = <<isSticky>>

\* C5: activeGroupId is the element id of the most recently delivered
\* isIntersecting entry, whatever the order of the list; it is null exactly
\* while none has been delivered, and an exit entry never changes it.
C5_ActiveIsLastEntry == activeGroupId = lastEntry

\* C5 witness: the second group of the list delivered an exit entry after the
\* first one had entered, and the first one is still active
C5_Witness ==
    /\ Len(groups) = 2
    /\ lastEvent.kind = "exit"
    /\ lastEvent.key = GroupKey(groups[2])
    /\ activeGroupId = GroupKey(groups[1])

\* C6: handleNavClick(key) leaves tooltipOpen[key] = false whether or not the
\* element exists; when it does not exist no scroll is issued and isSticky,
\* activeGroupId, navPosition and every other tooltipOpen entry are unchanged.
C6_ClickClearsHover ==
    [][lastEvent'.kind = "click" =>
          /\ lastEvent'.key \in DOMAIN tooltipOpen'
          /\ tooltipOpen'[lastEvent'.key] = FALSE
          /\ ElementsById(lastEvent'.key) = {} =>
                /\ lastEvent'.scrolls = <<>>
                /\ isSticky' = isSticky
                /\ activeGroupId' = activeGroupId
                /\ navPosition' = navPosition
                /\ DOMAIN tooltipOpen' = DOMAIN tooltipOpen \cup {lastEvent'.key}
                /\ \A k \in DOMAIN tooltipOpen \ {lastEvent'.key} :
                       tooltipOpen'[k] = tooltipOpen[k]]_vars

\* C6 witness: a click on a group whose element is absent cleared its entry
\* while the entry of another group is open
C6_Witness ==
    /\ lastEvent.kind = "click"
    /\ ElementsById(lastEvent.key) = {}
    /\ tooltipOpen[lastEvent.key] = FALSE
    /\ \E k \in DOMAIN tooltipOpen : k # lastEvent.key /\ tooltipOpen[k]

\* the last event was a click on a group whose element exists
ClickFound == lastEvent.kind = "click" /\ ElementsById(lastEvent.key) # {}

\* C7 (as amended): a click on a group whose element exists issues exactly one
\* scroll, to the element's document top minus (navPosition.height + 20 if
\* isSticky, else 20), navPosition.height being the last recorded height (0
\* until a measurement has run).
C7_ScrollTarget ==
    ClickFound =>
        lastEvent.scrolls =
            <<SectionDocTop(KeyId(lastEvent.key))
                - (IF isSticky THEN navPosition.height + ScrollMargin
                   ELSE ScrollMargin)>>

\* C7 witness: a click while pinned, after a measurement recorded the height
C7_Witness ==
    /\ ClickFound
    /\ isSticky
    /\ navPosition.height = NavHeight(groups)
    /\ Len(lastEvent.scrolls) = 1

\* C7 (original): the offset of a pinned navigator is its height + 20 in every
\* reachable state, a click before the first measurement included.
C7_Original ==
    ClickFound =>
        lastEvent.scrolls =
            <<SectionDocTop(KeyId(lastEvent.key))
                - (IF isSticky THEN NavHeight(groups) + ScrollMargin
                   ELSE ScrollMargin)>>

\* C8 (as amended): while the list is empty there is no connected observer and
\* no event calls onPinChange, and an event between two states with an empty
\* list changes neither navPosition nor isSticky.
C8_EmptyListInert ==
    [][(mounted' /\ groups' = <<>>) =>
          /\ Live(observers') = {}
          /\ lastEvent'.pinCalls = <<>>
          /\ (mounted /\ groups = <<>>) =>
                (navPosition' = navPosition /\ isSticky' = isSticky)]_vars

\* C8 witness: the list became empty while pinned, and a scroll event back to
\* the top was delivered
C8_Witness ==
    /\ mounted
    /\ groups = <<>>
    /\ lastEvent.kind = "scroll"
    /\ scrollY = 0
    /\ isSticky

\* C8 (original): while the list is empty no observer exists, no measurement is
\* scheduled, and no resize or scroll listener is registered.
C8_Original ==
    (mounted /\ groups = <<>>) =>
        /\ Live(observers) = {}
        /\ Cur \notin timers
        /\ resizeListeners = {}
        /\ ~scrollListener

\* C9: after a teardown or a list change, a callback registered by an earlier
\* effect run (for the previous list) no longer runs and changes activeGroupId,
\* navPosition or isSticky.
C9_NoStaleCallback ==
    [][~(lastEvent'.reg \subseteq {Cur}) =>
          /\ activeGroupId' = activeGroupId
          /\ navPosition' = navPosition
          /\ isSticky' = isSticky]_vars

\* C10: each element id has at most one connected observer; the connected
\* observers are those of the groups of the current list whose element existed
\* at the last setup; and every observer is disconnected before an effect run
\* creates new ones.
C10_OneObserverPerSection ==
    /\ \A o1, o2 \in Live(observers) : o1.key = o2.key => o1 = o2
    /\ {o.key : o \in Live(observers)} =
           IF mounted
           THEN {GroupKey(id) : id \in SeqRange(groups) \cap setupDom}
           ELSE {}
    /\ lastEvent.kind \in {"mount", "listchange"} => lastEvent.liveBefore = 0

\* C10 witness: a list change to a two-group list of which only one element
\* existed
C10_Witness ==
    /\ lastEvent.kind = "listchange"
    /\ Len(groups) = 2
    /\ Cardinality(Live(observers)) = 1
    /\ Cardinality(setupDom) = 1

\* the last event was a click on the list item of an integer id (not NaN)
ClickOnInteger ==
    /\ lastEvent.kind = "click"
    /\ Len(groups) = 1
    /\ groups[1] # NaN
    /\ lastEvent.key = GroupKey(groups[1])

\* C11: a click on the item of a group with integer id n calls onGroupClick
\* exactly once, with n, when a listener was passed, and not at all otherwise:
\* parsing the element id built from n gives n back.
C11_SelectDecodesId ==
    ClickOnInteger =>
        lastEvent.selects = IF onGroupClick THEN <<groups[1]>> ELSE <<>>

\* C11 witness: a click on the item of a negative two-digit id, whose element
\* does not exist, called the listener with that id
C11_Witness ==
    /\ ClickOnInteger
    /\ onGroupClick
    /\ groups[1] = -10
    /\ lastEvent.scrolls = <<>>
    /\ lastEvent.selects = <<-10>>

\* C12: a deferred measurement whose effect run was released, by a teardown or
\* by a list change, is cancelled: when its timer fires it never writes
\* navPosition.
C12_NoMeasureAfterRelease ==
    [][(lastEvent'.kind = "timer" /\ Cur \notin lastEvent'.reg)
          => navPosition' = navPosition]_vars

\* C13: with a parent that keeps the argument of onPinChange and passes it back
\* as isPinned, scroll events delivered before the parent's render included,
\* onPinChange is never called with the value the parent already holds from the
\* call before, and the parent's render that follows a processed scroll event
\* leaves isPinned equal to isSticky.
C13_FeedbackInSync ==
    [][/\ lastEvent'.kind = "scroll" =>
              \A i \in 1..Len(lastEvent'.pinCalls) :
                  PropOf(lastEvent'.pinCalls[i]) # parentPinned
       /\ (ScrollProcessed /\ lastEvent'.kind = "parent") =>
              Truthy(isPinned') = isSticky']_vars

\* C14: a click whose element id does not parse to a number makes no
\* onGroupClick call at all.
C14_NoSelectForMalformed ==
    (/\ lastEvent.kind = "click"
     /\ ParseInt(ReplaceFirst(lastEvent.key, <<"g", "r", "o", "u", "p", "-">>))
            = NaN)
        => lastEvent.selects = <<>>

\* C15: tooltipOpen is changed only by a pointer event and by a click.  A
\* pointer event on the item of key k sets entry k (true on enter, false on
\* leave), leaves every other entry, isSticky, activeGroupId and navPosition
\* unchanged and makes no scrollTo, onPinChange or onGroupClick call; scroll,
\* resize, observer and list-change events leave tooltipOpen unchanged.
C15_HoverFrame ==
    [][/\ tooltipOpen' # tooltipOpen =>
              lastEvent'.kind \in {"click", "mouseenter", "mouseleave"}
       /\ lastEvent'.kind \in {"mouseenter", "mouseleave"} =>
              /\ DOMAIN tooltipOpen' = DOMAIN tooltipOpen \cup {lastEvent'.key}
              /\ tooltipOpen'[lastEvent'.key] = (lastEvent'.kind = "mouseenter")
              /\ \A k \in DOMAIN tooltipOpen \ {lastEvent'.key} :
                     tooltipOpen'[k] = tooltipOpen[k]
              /\ isSticky' = isSticky
              /\ activeGroupId' = activeGroupId
              /\ navPosition' = navPosition
              /\ scrollY' = scrollY
              /\ lastEvent'.scrolls = <<>>
              /\ lastEvent'.pinCalls = <<>>
              /\ lastEvent'.selects = <<>>
       /\ lastEvent'.kind \in {"scroll", "resize", "enter", "exit", "listchange"}
              => tooltipOpen' = tooltipOpen]_vars

\* C15 witness: the pointer left one item while the tooltip of another one is
\* open, the navigator is pinned and a group is active
C15_Witness ==
    /\ lastEvent.kind = "mouseleave"
    /\ tooltipOpen[lastEvent.key] = FALSE
    /\ \E k \in DOMAIN tooltipOpen : k # lastEvent.key /\ tooltipOpen[k]
    /\ isSticky
    /\ activeGroupId # Null

\* C16: activeGroupId is changed only by an observer callback that was
\* delivered an isIntersecting entry: clicks, pointer events, scroll and resize
\* events, the deferred measurement and exit entries leave it unchanged; and a
\* click leaves isSticky unchanged.
C16_ActiveFrame ==
    [][/\ activeGroupId' # activeGroupId => lastEvent'.kind = "enter"
       /\ lastEvent'.kind \in {"click", "mouseenter", "mouseleave", "scroll",
                                "resize", "timer", "exit"}
              => activeGroupId' = activeGroupId
       /\ lastEvent'.kind = "click" => isSticky' = isSticky]_vars

\* C16 witness: while pinned, a click on the item of a group other than the
\* active one, whose element exists
C16_Witness ==
    /\ lastEvent.kind = "click"
    /\ Len(lastEvent.scrolls) = 1
    /\ activeGroupId # Null
    /\ activeGroupId # lastEvent.key
    /\ isSticky

\* C17: a measurement (the deferred one or one run by a resize event) made
\* while the marker or the navigator container is not there leaves navPosition
\* as it was; made while both are there it replaces top, left and height
\* together by what the document gives at that moment.
C17_MeasureAllOrNothing ==
    [][lastEvent'.kind \in {"timer", "resize"} =>
          IF Rendered /\ (\E g \in lastEvent'.reg : g # Dead)
          THEN /\ navPosition'.top = MarkerDocTop - scrollY
               /\ navPosition'.left = NavRectLeft
               /\ navPosition'.height = HeaderHeight + ItemHeight * Len(groups)
               /\ DOMAIN navPosition' = {"top", "left", "height"}
          ELSE navPosition' = navPosition]_vars

\* C17 witness: the deferred measurement ran after the list had become empty,
\* and navPosition still holds the measurement recorded for the earlier list
C17_Witness ==
    /\ lastEvent.kind = "timer"
    /\ mounted
    /\ groups = <<>>
    /\ navPosition.left = FlowLeft
    /\ navPosition.height > HeaderHeight

\* C18: the `left` style of the navigator container is navPosition.left, the
\* last recorded one, when isSticky holds and isMobile does not, and 0 whenever
\* isMobile holds or isSticky does not.
C18_LeftOffset ==
    /\ (isSticky /\ ~isMobile) => RenderedLeft = navPosition.left
    /\ (isMobile \/ ~isSticky) => RenderedLeft = 0

\* C18 witness: pinned on a small screen after a measurement on a large one
\* recorded the flow position as left
C18_Witness ==
    /\ Rendered
    /\ isSticky
    /\ isMobile
    /\ navPosition.left = FlowLeft
    /\ RenderedLeft = 0

====
